---- MODULE Spec2Model ----
(***************************************************************************)
(* Model of src/src/hooks/web3/usePools.ts: the static PoolCache (two      *)
(* front-inserted sequences with halve-on-overflow eviction) and the       *)
(* usePool hook (normalisation of the inputs, the effect that issues the   *)
(* two ledger reads, the Promise.all callbacks, and the memoised result).  *)
(*                                                                         *)
(* Object identity (=== on objects) is modelled by a `ref` field drawn     *)
(* from an allocation counter; `undefined`/`null` by the record Undefined. *)
(***************************************************************************)
EXTENDS Integers, Sequences, FiniteSets, TLC

VARIABLES
    pools,                \* PoolCache.pools
    poolKeys,             \* PoolCache.poolKeys
    nextRef,              \* allocation counter: the identity of the next object built
    currencyA,            \* usePool arguments
    currencyB,
    feeAmount,
    tickSpacing,
    hooks,
    chainId,              \* useWeb3React()
    provider,
    poolManagerContract,  \* useTestnetContract()
    slot0,                \* useState tracker of the getSlot0 read
    liquidity,            \* useState tracker of the getLiquidity read
    effectDue,            \* the effect's dependencies changed in the last render
    requests,             \* the Promise.all chains in flight, oldest first
    started,              \* how many the effect has started; a chain's number is its rank
    out,                  \* the pair returned by the last render
    current,              \* history: number of the chain the last effect run started (0: it reset the trackers)
    owner,                \* history: who last wrote the trackers: chain number (0: the effect), the
                          \*          identifier its reads were keyed by, and how the chain ended
    last                  \* history: the last direct PoolCache call (operation, arguments, sequence before, result)

vars == <<pools, poolKeys, nextRef, currencyA, currencyB, feeAmount, tickSpacing,
          hooks, chainId, provider, poolManagerContract, slot0, liquidity,
          effectDue, requests, started, out, current, owner, last>>

cacheVars == <<pools, poolKeys, nextRef>>
inputVars == <<currencyA, currencyB, feeAmount, tickSpacing, hooks, chainId,
               provider, poolManagerContract>>
hookVars == <<slot0, liquidity, effectDue, requests, started, out, current, owner>>

-----------------------------------------------------------------------------
(* Values *)

\* undefined / null
Undefined == [def |-> FALSE]

\* Token instances (identity is the name) and the address each carries.
\* USDC2 is a second instance of the USDC token.
Tokens == {"USDC", "USDC2", "WETH", "DAI"}

address(token) ==
    CASE token = "USDC" -> 1
      [] token = "USDC2" -> 1
      [] token = "WETH" -> 2
      [] token = "DAI" -> 3

-----------------------------------------------------------------------------
(* PoolCache *)

MAX_ENTRIES == 128

Min(a, b) == IF a < b THEN a ELSE b

\* Array.prototype.slice(0, n)
slice(s, n) == SubSeq(s, 1, Min(n, Len(s)))

\* unshift putting the entry at the back.
push(s, x) == s \o <<x>>

\* Array.prototype.unshift(x)
unshift(s, x) == <<x>> \o s

\* evict with >= for >.
evictAtCap(s) == IF Len(s) >= MAX_ENTRIES THEN slice(s, MAX_ENTRIES \div 2) ELSE s

\* evict keeping MAX_ENTRIES entries instead of half of them.
evictToCap(s) == IF Len(s) > MAX_ENTRIES THEN slice(s, MAX_ENTRIES) ELSE s

\* The eviction at the head of getPoolKeys and getPool.
evict(s) == IF Len(s) > MAX_ENTRIES THEN slice(s, MAX_ENTRIES \div 2) ELSE s

\* The object literal built by getPoolKeys; ref is its identity.
newKey(ref, tokenA, tokenB, fee, spacing, hook) ==
    [ref |-> ref, currency0 |-> address(tokenA), currency1 |-> address(tokenB),
     fee |-> fee, tickSpacing |-> spacing, hooks |-> hook]

\* The predicate of poolKeys.find: currentKey === key, a comparison of identities.
keyMatches(currentKey, key) == currentKey.ref = key.ref

\* PoolCache.getPoolKeys on the sequence keys, the new object getting identity ref.
\* Result: the sequence afterwards, the returned key, and whether the new key was stored.
getPoolKeys(keys, ref, tokenA, tokenB, fee, spacing, hook) ==
    LET kept == evict(keys)
        key == newKey(ref, tokenA, tokenB, fee, spacing, hook)
        hits == {i \in 1..Len(kept) : keyMatches(kept[i], key)}
    IN  IF hits # {}
        THEN [seq |-> kept,
              ret |-> kept[CHOOSE i \in hits : \A j \in hits : i <= j],
              added |-> FALSE]
        ELSE [seq |-> unshift(kept, key), ret |-> key, added |-> TRUE]

\* Range of prices the Pool constructor accepts.
MIN_SQRT_RATIO == 1
MAX_SQRT_RATIO == 1000

\* new Pool(...) throws when its arguments are inconsistent.
poolConstructs(sqrtPriceX96, liq) ==
    /\ liq >= 0
    /\ sqrtPriceX96 >= MIN_SQRT_RATIO
    /\ sqrtPriceX96 <= MAX_SQRT_RATIO

\* new Pool(tokenA, tokenB, fee, sqrtPriceX96, liquidity, tickSpacing, tick)
newPool(ref, tokenA, tokenB, fee, sqrtPriceX96, liq, spacing, tick) ==
    [ref |-> ref, token0 |-> tokenA, token1 |-> tokenB, fee |-> fee,
     sqrtRatioX96 |-> sqrtPriceX96, liquidity |-> liq,
     tickSpacing |-> spacing, tickCurrent |-> tick]

\* poolMatches comparing the tick spacing as well.
poolMatchesWithSpacing(pool, tokenA, tokenB, fee, sqrtPriceX96, liq, spacing, tick) ==
    /\ pool.token0 = tokenA
    /\ pool.token1 = tokenB
    /\ pool.fee = fee
    /\ pool.sqrtRatioX96 = sqrtPriceX96
    /\ pool.liquidity = liq
    /\ pool.tickSpacing = spacing
    /\ pool.tickCurrent = tick

\* poolMatches comparing the stored pool with a newly built object, as the
\* predicate of poolKeys.find does.
poolMatchesByReference(pool, tokenA, tokenB, fee, sqrtPriceX96, liq, spacing, tick) ==
    pool = newPool(0, tokenA, tokenB, fee, sqrtPriceX96, liq, spacing, tick)

\* The predicate of pools.find.
poolMatches(pool, tokenA, tokenB, fee, sqrtPriceX96, liq, spacing, tick) ==
    /\ pool.token0 = tokenA
    /\ pool.token1 = tokenB
    /\ pool.fee = fee
    /\ pool.sqrtRatioX96 = sqrtPriceX96
    /\ pool.liquidity = liq
    /\ pool.tickCurrent = tick

\* PoolCache.getPool on the sequence ps, a new pool getting identity ref.
\* Result: the sequence afterwards, the returned pool (Undefined when the
\* constructor threw), whether it threw, and whether a pool was constructed.
getPool(ps, ref, tokenA, tokenB, fee, sqrtPriceX96, liq, spacing, tick) ==
    LET kept == evict(ps)
        hits == {i \in 1..Len(kept) :
                    poolMatches(kept[i], tokenA, tokenB, fee, sqrtPriceX96, liq, spacing, tick)}
        pool == newPool(ref, tokenA, tokenB, fee, sqrtPriceX96, liq, spacing, tick)
    IN  IF hits # {}
        THEN [seq |-> kept,
              ret |-> kept[CHOOSE i \in hits : \A j \in hits : i <= j],
              threw |-> FALSE, added |-> FALSE]
        ELSE IF ~poolConstructs(sqrtPriceX96, liq)
        THEN [seq |-> kept, ret |-> Undefined, threw |-> TRUE, added |-> FALSE]
        ELSE [seq |-> unshift(kept, pool), ret |-> pool, threw |-> FALSE, added |-> TRUE]

-----------------------------------------------------------------------------
(* usePool: normalisation *)

\* Currency.wrapped: the native currency wraps to WETH, a token to itself.
wrapped(currency) == IF currency = "ETH" THEN "WETH" ELSE currency

\* Token.equals and Token.sortsBefore compare addresses (one chain).
equals(tokenA, tokenB) == address(tokenA) = address(tokenB)
sortsBefore(tokenA, tokenB) == address(tokenA) < address(tokenB)

\* poolTokenOf keeping the tokens in the order given.
poolTokenOfUnsorted(chain, cA, cB, fee, spacing, hook) ==
    IF chain = 0 THEN Undefined
    ELSE IF cA # "" /\ cB # "" /\ fee # 0 /\ spacing # 0 /\ hook # ""
    THEN LET tokenA == wrapped(cA)
             tokenB == wrapped(cB)
         IN  IF equals(tokenA, tokenB) THEN Undefined
             ELSE [token0 |-> tokenA, token1 |-> tokenB, fee |-> fee,
                   tickSpacing |-> spacing, hooks |-> hook]
    ELSE Undefined

\* The poolToken memo. The && test takes undefined, "" and 0 alike as false:
\* "" stands for an absent currency or hook and for the empty string, 0 for an
\* absent fee, tick spacing or chainId and for the number 0.
\* The tuple [Token, Token, fee, tickSpacing, hooks] is a record here.
poolTokenOf(chain, cA, cB, fee, spacing, hook) ==
    IF chain = 0 THEN Undefined
    ELSE IF cA # "" /\ cB # "" /\ fee # 0 /\ spacing # 0 /\ hook # ""
    THEN LET tokenA == wrapped(cA)
             tokenB == wrapped(cB)
         IN  IF equals(tokenA, tokenB) THEN Undefined
             ELSE IF sortsBefore(tokenA, tokenB)
             THEN [token0 |-> tokenA, token1 |-> tokenB, fee |-> fee,
                   tickSpacing |-> spacing, hooks |-> hook]
             ELSE [token0 |-> tokenB, token1 |-> tokenA, fee |-> fee,
                   tickSpacing |-> spacing, hooks |-> hook]
    ELSE Undefined

\* The poolKey memo.
poolKeyOf(pt) ==
    IF pt = Undefined THEN Undefined
    ELSE [currency0 |-> address(pt.token0), currency1 |-> address(pt.token1),
          fee |-> pt.fee, tickSpacing |-> pt.tickSpacing, hooks |-> pt.hooks]

\* The largest value of the type "uint24" that toId encodes the fee and the
\* tick spacing as.
UINT24_MAX == 16777215

\* Strings that are addresses; any other string is not.
HookAddresses == {"0xH", "0xH2"}

\* An exception thrown.
Thrown == [thrown |-> TRUE]

\* defaultAbiCoder.encode throws on a value outside its type: a fee or a tick
\* spacing that is not a uint24, a hook that is not an address.
encodes(key) ==
    /\ key.fee >= 0
    /\ key.fee <= UINT24_MAX
    /\ key.tickSpacing >= 0
    /\ key.tickSpacing <= UINT24_MAX
    /\ key.hooks \in HookAddresses

\* defaultAbiCoder.encode: the five fields in order.
encode(key) == <<key.currency0, key.currency1, key.fee, key.tickSpacing, key.hooks>>

\* keccak256: a value determined by the encoded bytes and by nothing else.
keccak256(bytes) == [hash |-> bytes]

toId(key) ==
    IF key = Undefined THEN Undefined
    ELSE IF ~encodes(key) THEN Thrown
    ELSE keccak256(encode(key))

poolToken == poolTokenOf(chainId, currencyA, currencyB, feeAmount, tickSpacing, hooks)
poolKey == poolKeyOf(poolToken)
id == toId(poolKey)

-----------------------------------------------------------------------------
(* usePool: the memoised result *)

DEFAULT_TICK_SPACING == 60

Tracker(result, loading, valid) ==
    [result |-> result, loading |-> loading, valid |-> valid]

\* !slot0d.sqrtPriceX96 || JSBI.EQ(slot0d.sqrtPriceX96, 0)
priceMissingOrZero(slot0d) ==
    \/ "sqrtPriceX96" \notin DOMAIN slot0d
    \/ slot0d.sqrtPriceX96 = 0

\* render with the loading test ahead of the valid test.
renderLoadingFirst(ps, ref, pt, key, s0, liq) ==
    LET invalid == [state |-> "INVALID", pool |-> Undefined, pools |-> ps, added |-> FALSE]
    IN
    IF pt = Undefined THEN invalid
    ELSE IF s0 = Undefined THEN invalid
    ELSE IF liq = Undefined THEN invalid
    ELSE IF s0.loading \/ liq.loading
    THEN [state |-> "LOADING", pool |-> Undefined, pools |-> ps, added |-> FALSE]
    ELSE IF ~s0.valid \/ ~liq.valid THEN invalid
    ELSE IF s0.result = Undefined \/ liq.result = Undefined
    THEN [state |-> "NOT_EXISTS", pool |-> Undefined, pools |-> ps, added |-> FALSE]
    ELSE IF priceMissingOrZero(s0.result)
    THEN [state |-> "NOT_EXISTS", pool |-> Undefined, pools |-> ps, added |-> FALSE]
    ELSE LET got == getPool(ps, ref, pt.token0, pt.token1, pt.fee,
                            s0.result.sqrtPriceX96, liq.result.liquidity,
                            IF key = Undefined THEN DEFAULT_TICK_SPACING ELSE key.tickSpacing,
                            s0.result.tick)
         IN  IF got.threw
             THEN [state |-> "NOT_EXISTS", pool |-> Undefined, pools |-> got.seq, added |-> FALSE]
             ELSE [state |-> "EXISTS", pool |-> got.ret, pools |-> got.seq, added |-> got.added]

\* The body of the result memo, run against the cache sequence ps; a pool it
\* constructs gets identity ref. Result: the returned pair and the cache afterwards.
render(ps, ref, pt, key, s0, liq) ==
    LET invalid == [state |-> "INVALID", pool |-> Undefined, pools |-> ps, added |-> FALSE]
    IN
    IF pt = Undefined THEN invalid
    ELSE IF s0 = Undefined THEN invalid
    ELSE IF liq = Undefined THEN invalid
    ELSE IF ~s0.valid \/ ~liq.valid THEN invalid
    ELSE IF s0.loading \/ liq.loading
    THEN [state |-> "LOADING", pool |-> Undefined, pools |-> ps, added |-> FALSE]
    ELSE IF s0.result = Undefined \/ liq.result = Undefined
    THEN [state |-> "NOT_EXISTS", pool |-> Undefined, pools |-> ps, added |-> FALSE]
    ELSE IF priceMissingOrZero(s0.result)
    THEN [state |-> "NOT_EXISTS", pool |-> Undefined, pools |-> ps, added |-> FALSE]
    ELSE LET got == getPool(ps, ref, pt.token0, pt.token1, pt.fee,
                            s0.result.sqrtPriceX96, liq.result.liquidity,
                            IF key = Undefined THEN DEFAULT_TICK_SPACING ELSE key.tickSpacing,
                            s0.result.tick)
         IN  IF got.threw
             THEN [state |-> "NOT_EXISTS", pool |-> Undefined, pools |-> got.seq, added |-> FALSE]
             ELSE [state |-> "EXISTS", pool |-> got.ret, pools |-> got.seq, added |-> got.added]

\* A render after the trackers or the pool token changed: recompute the memo.
Rerender(pt, s0, liq) ==
    LET r == render(pools, nextRef, pt, poolKeyOf(pt), s0, liq)
    IN  /\ out' = [state |-> r.state, pool |-> r.pool]
        /\ pools' = r.pools
        /\ nextRef' = IF r.added THEN nextRef + 1 ELSE nextRef

-----------------------------------------------------------------------------
(* usePool: the effect and the Promise.all callbacks *)

\* interface.decodeFunctionResult: the raw result is a sequence of words;
\* decoding throws (Undefined here) unless it holds the words of the outputs.
decodeSlot0(raw) ==
    IF Len(raw) = 2 THEN [sqrtPriceX96 |-> raw[1], tick |-> raw[2]] ELSE Undefined

decodeLiquidity(raw) ==
    IF Len(raw) = 1 THEN [liquidity |-> raw[1]] ELSE Undefined

\* What a read can return.
RawSlot0 == {<<0, 0>>, <<5, 1>>, <<2000, 1>>, <<>>}
RawLiquidity == {<<7>>, <<>>}

\* interface.encodeFunctionData(name, [argument]): the call a read carries.
encodeFunctionData(name, argument) == [function |-> name, args |-> <<argument>>]

\* The guard of the effect: something it needs is absent.
effectInputAbsent ==
    \/ ~poolManagerContract
    \/ id = Undefined
    \/ ~provider
    \/ chainId = 0
    \/ poolKey = Undefined

\* The effect (lines 142-194), run after a render whose dependencies changed.
RunEffect ==
    /\ effectDue
    /\ effectDue' = FALSE
    /\ IF effectInputAbsent
       THEN /\ slot0' = Undefined
            /\ liquidity' = Undefined
            /\ UNCHANGED <<requests, started>>
            /\ current' = 0
       ELSE /\ slot0' = Tracker(Undefined, TRUE, TRUE)
            /\ liquidity' = Tracker(Undefined, TRUE, TRUE)
            /\ started' = started + 1
            /\ current' = started + 1
            /\ requests' = Append(requests,
                  [n |-> started + 1, id |-> id,
                   slot0Data |-> encodeFunctionData("getSlot0", id),
                   liquidityData |-> encodeFunctionData("getLiquidity(bytes32)", id),
                   s0 |-> "pending", lts |-> "pending"])
    /\ owner' = [n |-> 0, id |-> IF effectInputAbsent THEN Undefined ELSE id, ended |-> "none"]
    /\ Rerender(poolToken, slot0', liquidity')
    /\ UNCHANGED <<poolKeys, inputVars, last>>

\* provider.call settles: one read of chain r resolves or rejects.
ReadSettles(r, read, how) ==
    /\ requests[r][read] = "pending"
    /\ requests' = [requests EXCEPT ![r][read] = how]
    /\ UNCHANGED <<cacheVars, inputVars, slot0, liquidity, effectDue, started, out, current, owner, last>>

Slot0Resolves(r) == ReadSettles(r, "s0", "resolved")
Slot0Rejects(r) == ReadSettles(r, "s0", "rejected")
LiquidityResolves(r) == ReadSettles(r, "lts", "resolved")
LiquidityRejects(r) == ReadSettles(r, "lts", "rejected")

\* catchBody with the liquidity tracker forgotten.
catchBodySlot0Only ==
    /\ slot0' = Tracker(Undefined, FALSE, FALSE)
    /\ liquidity' = liquidity

\* The body of .catch.
catchBody ==
    /\ slot0' = Tracker(Undefined, FALSE, FALSE)
    /\ liquidity' = Tracker(Undefined, FALSE, FALSE)

\* thenBody with the liquidity tracker left as it is.
thenBodySlot0Only(resolvedSlot0, resolvedLiquidity) ==
    LET resolvedSlot0Decoded == decodeSlot0(resolvedSlot0)
        resolvedLiquidityDecoded == decodeLiquidity(resolvedLiquidity)
    IN  IF resolvedSlot0Decoded = Undefined \/ resolvedLiquidityDecoded = Undefined
        THEN catchBody
        ELSE /\ slot0' = Tracker(resolvedSlot0Decoded, FALSE, TRUE)
             /\ liquidity' = liquidity

\* The body of .then on the raw results; a decode that throws lands in .catch.
\* The two set-state calls of a callback (and of the effect) are batched by
\* React: no render sees one tracker set and the other not yet.
thenBody(resolvedSlot0, resolvedLiquidity) ==
    LET resolvedSlot0Decoded == decodeSlot0(resolvedSlot0)
        resolvedLiquidityDecoded == decodeLiquidity(resolvedLiquidity)
    IN  IF resolvedSlot0Decoded = Undefined \/ resolvedLiquidityDecoded = Undefined
        THEN catchBody
        ELSE /\ slot0' = Tracker(resolvedSlot0Decoded, FALSE, TRUE)
             /\ liquidity' = Tracker(resolvedLiquidityDecoded, FALSE, TRUE)

\* The chain at index r is over once its callback has run.
without(r) == SubSeq(requests, 1, r - 1) \o SubSeq(requests, r + 1, Len(requests))

\* React runs a due effect before it renders again, and the effect sets both
\* trackers: what a callback sets while the effect is due is replaced before
\* any render reads it.
\* Promise.all of chain r fulfilled: .then runs (lines 171-189).
PromiseThen(r) ==
    /\ requests[r].s0 = "resolved"
    /\ requests[r].lts = "resolved"
    /\ requests' = without(r)
    /\ IF effectDue
       THEN UNCHANGED <<slot0, liquidity, owner, out, pools, nextRef>>
       ELSE /\ \E resolvedSlot0 \in RawSlot0, resolvedLiquidity \in RawLiquidity :
                 /\ thenBody(resolvedSlot0, resolvedLiquidity)
                 /\ owner' = [n |-> requests[r].n, id |-> requests[r].id,
                               ended |-> IF decodeSlot0(resolvedSlot0) = Undefined
                                            \/ decodeLiquidity(resolvedLiquidity) = Undefined
                                         THEN "malformed" ELSE "decoded"]
            /\ Rerender(poolToken, slot0', liquidity')
    /\ UNCHANGED <<poolKeys, inputVars, effectDue, started, current, last>>

\* Promise.all of chain r rejected (its first rejection): .catch runs (lines 190-193).
PromiseCatch(r) ==
    /\ requests[r].s0 = "rejected" \/ requests[r].lts = "rejected"
    /\ requests' = without(r)
    /\ IF effectDue
       THEN UNCHANGED <<slot0, liquidity, owner, out, pools, nextRef>>
       ELSE /\ catchBody
            /\ owner' = [n |-> requests[r].n, id |-> requests[r].id, ended |-> "rejected"]
            /\ Rerender(poolToken, slot0', liquidity')
    /\ UNCHANGED <<poolKeys, inputVars, effectDue, started, current, last>>

-----------------------------------------------------------------------------
(* usePool: the caller and the connection change the inputs *)

MaxRequests == 2

InputCurrencyA == {"", "ETH"}
InputCurrencyB == {"USDC", "WETH", "DAI"}
InputTickSpacing == {10, 60}
InputChainId == {0, 1}

NoCall == [op |-> "none", count |-> 0]

\* RenderWithArguments with chainId left out of the effect's dependencies.
RenderWithoutChainDependency(chainChanged) ==
    LET pt == poolTokenOf(chainId', currencyA', currencyB', feeAmount', tickSpacing', hooks')
    IN  /\ ~effectDue
        /\ started < MaxRequests
        /\ effectDue' = ~(poolToken = Undefined /\ pt = Undefined)
        /\ IF poolToken = Undefined /\ pt = Undefined
           THEN UNCHANGED <<out, pools, nextRef>>
           ELSE Rerender(pt, slot0, liquidity)
        /\ UNCHANGED <<poolKeys, slot0, liquidity, requests, started, current, owner, last>>

\* A render with a changed argument or chainId: the poolToken memo is
\* recomputed (a new tuple or undefined), so the result memo is recomputed too
\* unless the pool token was and stays undefined; the effect is due when one of
\* its dependencies [poolKey, poolManagerContract, provider, chainId] changed.
\* React runs a due effect before it renders again.
RenderWithArguments(chainChanged) ==
    LET pt == poolTokenOf(chainId', currencyA', currencyB', feeAmount', tickSpacing', hooks')
    IN  /\ ~effectDue
        /\ started < MaxRequests
        /\ effectDue' = (chainChanged \/ ~(poolToken = Undefined /\ pt = Undefined))
        /\ IF poolToken = Undefined /\ pt = Undefined
           THEN UNCHANGED <<out, pools, nextRef>>
           ELSE Rerender(pt, slot0, liquidity)
        /\ UNCHANGED <<poolKeys, slot0, liquidity, requests, started, current, owner, last>>

SetCurrencyA ==
    /\ \E c \in InputCurrencyA \ {currencyA} : currencyA' = c
    /\ UNCHANGED <<currencyB, feeAmount, tickSpacing, hooks, chainId, provider, poolManagerContract>>
    /\ RenderWithArguments(FALSE)

SetCurrencyB ==
    /\ \E c \in InputCurrencyB \ {currencyB} : currencyB' = c
    /\ UNCHANGED <<currencyA, feeAmount, tickSpacing, hooks, chainId, provider, poolManagerContract>>
    /\ RenderWithArguments(FALSE)

SetTickSpacing ==
    /\ \E t \in InputTickSpacing \ {tickSpacing} : tickSpacing' = t
    /\ UNCHANGED <<currencyA, currencyB, feeAmount, hooks, chainId, provider, poolManagerContract>>
    /\ RenderWithArguments(FALSE)

SetChainId ==
    /\ \E c \in InputChainId \ {chainId} : chainId' = c
    /\ UNCHANGED <<currencyA, currencyB, feeAmount, tickSpacing, hooks, provider, poolManagerContract>>
    /\ RenderWithArguments(TRUE)

\* The provider or the contract appears or goes: no memo of the result
\* depends on them, the effect does.
SetProvider ==
    /\ ~effectDue
    /\ started < MaxRequests
    /\ provider' = ~provider
    /\ effectDue' = TRUE
    /\ UNCHANGED <<cacheVars, currencyA, currencyB, feeAmount, tickSpacing, hooks, chainId,
                   poolManagerContract, slot0, liquidity, requests, started, out, current, owner, last>>

SetContract ==
    /\ ~effectDue
    /\ started < MaxRequests
    /\ poolManagerContract' = ~poolManagerContract
    /\ effectDue' = TRUE
    /\ UNCHANGED <<cacheVars, currencyA, currencyB, feeAmount, tickSpacing, hooks, chainId,
                   provider, slot0, liquidity, requests, started, out, current, owner, last>>

-----------------------------------------------------------------------------
(* The hook, mounted with a connection and no first currency selected *)

Init ==
    /\ pools = <<>>
    /\ poolKeys = <<>>
    /\ nextRef = 1
    /\ currencyA = ""
    /\ currencyB = "USDC"
    /\ feeAmount = 500
    /\ tickSpacing = 10
    /\ hooks = "0xH"
    /\ chainId = 1
    /\ provider = TRUE
    /\ poolManagerContract = TRUE
    /\ slot0 = Undefined
    /\ liquidity = Undefined
    /\ effectDue = TRUE
    /\ requests = <<>>
    /\ started = 0
    /\ out = [state |-> "INVALID", pool |-> Undefined]
    /\ current = 0
    /\ owner = [n |-> 0, id |-> Undefined, ended |-> "none"]
    /\ last = NoCall

Slot0ResolvesSome == \E r \in 1..Len(requests) : Slot0Resolves(r)
Slot0RejectsSome == \E r \in 1..Len(requests) : Slot0Rejects(r)
LiquidityResolvesSome == \E r \in 1..Len(requests) : LiquidityResolves(r)
LiquidityRejectsSome == \E r \in 1..Len(requests) : LiquidityRejects(r)
PromiseThenSome == \E r \in 1..Len(requests) : PromiseThen(r)
PromiseCatchSome == \E r \in 1..Len(requests) : PromiseCatch(r)

Next ==
    \/ SetCurrencyA
    \/ SetCurrencyB
    \/ SetTickSpacing
    \/ SetChainId
    \/ SetProvider
    \/ SetContract
    \/ RunEffect
    \/ Slot0ResolvesSome
    \/ Slot0RejectsSome
    \/ LiquidityResolvesSome
    \/ LiquidityRejectsSome
    \/ PromiseThenSome
    \/ PromiseCatchSome

Spec == Init /\ [][Next]_vars

-----------------------------------------------------------------------------
(* The result memo as a function: any pool token, any pair of tracker       *)
(* values, against an empty cache or one that holds a pool                  *)

MemoSlot0Results ==
    {Undefined, [sqrtPriceX96 |-> 0, tick |-> 0], [sqrtPriceX96 |-> 5, tick |-> 1],
     [sqrtPriceX96 |-> 2000, tick |-> 1], [tick |-> 1]}
MemoLiquidityResults == {Undefined, [liquidity |-> 7]}

MemoTrackers(results) ==
    {Undefined} \cup {Tracker(r, l, v) : r \in results, l \in BOOLEAN, v \in BOOLEAN}

\* The cache after one resolution of USDC/WETH at tick spacing 10.
MemoPools ==
    {<<>>, getPool(<<>>, 1, "USDC", "WETH", 500, 5, 7, 10, 1).seq}

NotRendered == [state |-> "none", pool |-> Undefined]
InvalidPair == [state |-> "INVALID", pool |-> Undefined]

InitMemo ==
    /\ pools \in MemoPools
    /\ poolKeys = <<>>
    /\ nextRef = Len(pools) + 1
    /\ currencyA \in InputCurrencyA
    /\ currencyB \in InputCurrencyB
    /\ feeAmount = 500
    /\ tickSpacing \in InputTickSpacing
    /\ hooks = "0xH"
    /\ chainId = 1
    /\ provider = TRUE
    /\ poolManagerContract = TRUE
    /\ slot0 \in MemoTrackers(MemoSlot0Results)
    /\ liquidity \in MemoTrackers(MemoLiquidityResults)
    /\ effectDue = FALSE
    /\ requests = <<>>
    /\ started = 0
    /\ out = NotRendered
    /\ current = 0
    /\ owner = [n |-> 0, id |-> Undefined, ended |-> "none"]
    /\ last = NoCall

\* The memo runs once on the values drawn.
MemoRuns ==
    /\ out = NotRendered
    /\ Rerender(poolToken, slot0, liquidity)
    /\ UNCHANGED <<poolKeys, inputVars, slot0, liquidity, effectDue, requests, started,
                   current, owner, last>>

NextMemo == MemoRuns

SpecMemo == InitMemo /\ [][NextMemo]_vars

\* C2: the pair returned follows the rules in priority order: no pool token,
\* an absent tracker or a tracker with valid=false give INVALID; else a
\* loading tracker gives LOADING; else an absent result, or a price absent or
\* zero, gives NOT_EXISTS; else EXISTS with a pool of the cache that has the
\* request's tokens, fee, price, liquidity and tick, or NOT_EXISTS when no
\* pool could be constructed. The pool is non-null exactly when EXISTS.
C2_ResultFollowsPriorityRules ==
    out # NotRendered =>
        LET absent == poolToken = Undefined \/ slot0 = Undefined \/ liquidity = Undefined
            notValid == ~absent /\ (~slot0.valid \/ ~liquidity.valid)
            loading == ~absent /\ ~notValid /\ (slot0.loading \/ liquidity.loading)
            settled == ~absent /\ ~notValid /\ ~loading
            noResult == settled /\ (slot0.result = Undefined \/ liquidity.result = Undefined)
            noPrice == settled /\ ~noResult
                       /\ ("sqrtPriceX96" \notin DOMAIN slot0.result
                           \/ slot0.result.sqrtPriceX96 = 0)
            priced == settled /\ ~noResult /\ ~noPrice
        IN  /\ absent => out.state = "INVALID"
            /\ notValid => out.state = "INVALID"
            /\ loading => out.state = "LOADING"
            /\ noResult => out.state = "NOT_EXISTS"
            /\ noPrice => out.state = "NOT_EXISTS"
            /\ priced => \/ /\ out.state = "EXISTS"
                            /\ \E i \in 1..Len(pools) : pools[i] = out.pool
                            /\ out.pool.token0 = poolToken.token0
                            /\ out.pool.token1 = poolToken.token1
                            /\ out.pool.fee = poolToken.fee
                            /\ out.pool.sqrtRatioX96 = slot0.result.sqrtPriceX96
                            /\ out.pool.liquidity = liquidity.result.liquidity
                            /\ out.pool.tickCurrent = slot0.result.tick
                         \/ /\ out.state = "NOT_EXISTS"
                            /\ slot0.result.sqrtPriceX96 > MAX_SQRT_RATIO
            /\ (out.pool # Undefined) <=> (out.state = "EXISTS")

\* C2 witness: a tracker that is both invalid and loading was rendered INVALID.
C2_Witness ==
    /\ out = InvalidPair
    /\ poolToken # Undefined
    /\ slot0 # Undefined
    /\ liquidity # Undefined
    /\ ~slot0.valid
    /\ slot0.loading

-----------------------------------------------------------------------------
(* Claims about the resolver, checked under Spec *)

\* C1: stale completions are discarded: the trackers are only ever written by
\* the effect or by the chain the last effect run started; a chain that was
\* superseded by a newer run (or by a reset) never writes them.
C1_StaleCompletionDiscarded ==
    owner.n # 0 => owner.n = current

\* C3: when a chain ends in a failure (a read rejected, or a raw result did
\* not decode), both trackers are loading=false, valid=false, result absent,
\* and the pair reported is INVALID with no pool.
C3_FailureInvalidatesBoth ==
    owner.ended \in {"rejected", "malformed"} =>
        /\ slot0 = Tracker(Undefined, FALSE, FALSE)
        /\ liquidity = Tracker(Undefined, FALSE, FALSE)
        /\ out = InvalidPair

\* C3 witness: a chain failed on a malformed result while the arguments name a pool.
C3_Witness ==
    /\ owner.ended = "malformed"
    /\ poolToken # Undefined
    /\ slot0 = Tracker(Undefined, FALSE, FALSE)

\* C4: once the effect has run with the contract, the provider, the chainId
\* or the pool key (hence the identifier) absent, the pair reported is INVALID
\* with no pool for as long as that input stays absent.
C4_AbsentInputReportsInvalid ==
    (~effectDue /\ effectInputAbsent) => out = InvalidPair

\* C5: a pool reported as EXISTS carries the request's values: the tokens of
\* the pool token in order, its fee, the decoded price, liquidity and tick,
\* and the tick spacing of the requested pool key.
C5_ExistsPoolMatchesRequest ==
    out.state = "EXISTS" =>
        /\ out.pool.token0 = poolToken.token0
        /\ out.pool.token1 = poolToken.token1
        /\ out.pool.fee = poolToken.fee
        /\ out.pool.sqrtRatioX96 = slot0.result.sqrtPriceX96
        /\ out.pool.liquidity = liquidity.result.liquidity
        /\ out.pool.tickCurrent = slot0.result.tick
        /\ out.pool.tickSpacing = poolKey.tickSpacing

\* C6: after the arguments change to another pool and before the effect has
\* re-initialised the trackers, the pair reported for the new arguments is
\* INVALID or LOADING, never EXISTS or NOT_EXISTS read off the old trackers.
C6_NoResultFromPreviousRequest ==
    (effectDue /\ id # Undefined /\ owner.id # Undefined /\ owner.id # id) =>
        out.state \in {"INVALID", "LOADING"}

\* C15: a change of the identifier, of the provider, of the contract or of
\* the chainId makes the effect due (after every step the effect is due, or
\* no argument and nothing of the connection changed, or these four are what
\* they were); and the effect, run with all it needs
\* present, sets both trackers to loading=true, valid=true, no result (the
\* pair becomes LOADING) and issues one chain of exactly two reads, a getSlot0
\* call and a getLiquidity call that both carry the identifier of the current
\* pool key, both in flight at once.
C15_CycleSetsLoadingThenTwoReads ==
    [][/\ \/ effectDue'
          \/ UNCHANGED inputVars
          \/ /\ provider' = provider
             /\ poolManagerContract' = poolManagerContract
             /\ chainId' = chainId
             /\ id' = id
       /\ (effectDue /\ ~effectDue' /\ ~effectInputAbsent) =>
              /\ slot0' = Tracker(Undefined, TRUE, TRUE)
              /\ liquidity' = Tracker(Undefined, TRUE, TRUE)
              /\ out'.state = "LOADING"
              /\ Len(requests') = Len(requests) + 1
              /\ SubSeq(requests', 1, Len(requests)) = requests
              /\ LET chain == requests'[Len(requests')]
                 IN  /\ chain.slot0Data = [function |-> "getSlot0", args |-> <<toId(poolKey)>>]
                     /\ chain.liquidityData =
                            [function |-> "getLiquidity(bytes32)", args |-> <<toId(poolKey)>>]
                     /\ chain.s0 = "pending"
                     /\ chain.lts = "pending"
       /\ (effectDue /\ ~effectDue' /\ effectInputAbsent) => requests' = requests
      ]_vars

\* C15 witness: the second cycle has started while the reads of the first are
\* in flight; its trackers are loading and its two reads are in flight.
C15_Witness ==
    /\ ~effectDue
    /\ current = 2
    /\ Len(requests) = 2
    /\ requests[2].n = current
    /\ requests[2].id = id
    /\ requests[2].id # requests[1].id
    /\ requests[2].s0 = "pending"
    /\ requests[2].lts = "pending"
    /\ slot0 = Tracker(Undefined, TRUE, TRUE)
    /\ out.state = "LOADING"

\* The chain the last effect run started has exactly one read resolved and
\* the other in flight.
oneReadResolved(chain) ==
    \/ chain.s0 = "resolved" /\ chain.lts = "pending"
    \/ chain.s0 = "pending" /\ chain.lts = "resolved"

\* C16: the trackers are set to loading=false, valid=true with decoded
\* results only by a chain whose reads have both resolved; and while the
\* chain of the current request has exactly one read resolved and the other
\* in flight, both trackers are loading with no result and the pair is
\* LOADING.
C16_JoinOnSuccess ==
    [][/\ (owner' # owner /\ owner'.ended = "decoded") =>
              /\ \E r \in 1..Len(requests) :
                    /\ requests[r].n = owner'.n
                    /\ requests[r].s0 = "resolved"
                    /\ requests[r].lts = "resolved"
              /\ slot0'.result # Undefined /\ ~slot0'.loading /\ slot0'.valid
              /\ liquidity'.result # Undefined /\ ~liquidity'.loading /\ liquidity'.valid
       /\ \A r \in 1..Len(requests') :
              (~effectDue' /\ requests'[r].n = current' /\ oneReadResolved(requests'[r])) =>
                  /\ slot0' = Tracker(Undefined, TRUE, TRUE)
                  /\ liquidity' = Tracker(Undefined, TRUE, TRUE)
                  /\ out'.state = "LOADING"
      ]_vars

\* C19: the two trackers are both absent, or both present with the same
\* loading and valid flags and in one of three shapes: loading and valid with
\* no result, settled and valid with a result each, settled and invalid with
\* no result.
C19_TrackersInStep ==
    \/ slot0 = Undefined /\ liquidity = Undefined
    \/ /\ slot0 # Undefined
       /\ liquidity # Undefined
       /\ slot0.loading = liquidity.loading
       /\ slot0.valid = liquidity.valid
       /\ \/ /\ slot0.loading /\ slot0.valid
             /\ slot0.result = Undefined /\ liquidity.result = Undefined
          \/ /\ ~slot0.loading /\ slot0.valid
             /\ slot0.result # Undefined /\ liquidity.result # Undefined
          \/ /\ ~slot0.loading /\ ~slot0.valid
             /\ slot0.result = Undefined /\ liquidity.result = Undefined

\* C19 witness: a chain wrote its decoded results while a later chain, which
\* set the trackers to loading, is in flight.
C19_Witness ==
    /\ owner.ended = "decoded"
    /\ owner.n # current
    /\ current # 0
    /\ slot0.result # Undefined
    /\ liquidity.result # Undefined
    /\ ~liquidity.loading

-----------------------------------------------------------------------------
(* PoolCache called directly: a cache that earlier calls have filled, then  *)
(* a few calls with chosen arguments                                        *)

MaxCalls == 2

\* The sequences after the calls numbered lo..hi, in order, with pairwise
\* distinct arguments: the i-th key has fee i, the i-th pool has price i.
\* (The range is split in two and the first half is evaluated before the
\* second is entered, to keep the evaluation shallow.)
RECURSIVE keysAfterCalls(_, _, _), poolsAfterCalls(_, _, _)
keysAfterCalls(keys, lo, hi) ==
    IF lo > hi THEN keys
    ELSE IF lo = hi THEN getPoolKeys(keys, lo, "USDC", "WETH", lo, 60, "0xH").seq
    ELSE LET mid == (lo + hi) \div 2
             half == keysAfterCalls(keys, lo, mid)
         IN  IF Len(half) >= 0 THEN keysAfterCalls(half, mid + 1, hi) ELSE half

poolsAfterCalls(ps, lo, hi) ==
    IF lo > hi THEN ps
    ELSE IF lo = hi THEN getPool(ps, lo, "USDC", "WETH", 500, lo, 7, 60, 1).seq
    ELSE LET mid == (lo + hi) \div 2
             half == poolsAfterCalls(ps, lo, mid)
         IN  IF Len(half) >= 0 THEN poolsAfterCalls(half, mid + 1, hi) ELSE half

keysAfter(n) == keysAfterCalls(<<>>, 1, n)
poolsAfter(n) == poolsAfterCalls(<<>>, 1, n)

FillSizes == {0, MAX_ENTRIES \div 2, MAX_ENTRIES, MAX_ENTRIES + 1, 2 * MAX_ENTRIES}

\* Arguments of the calls: a fee and a price of the oldest entry, of a recent
\* entry, of no entry, and a price no pool can have.
ProbeFees == {1, MAX_ENTRIES, 500}
ProbePrices == {1, MAX_ENTRIES, 500, 2000}
ProbeTokenA == {"USDC", "USDC2"}
ProbeTickSpacing == {10, 60}

InitCache ==
    /\ \E n \in FillSizes :
          /\ poolKeys = keysAfter(n)
          /\ pools = poolsAfter(n)
          /\ nextRef = n + 1
    /\ currencyA = ""
    /\ currencyB = "USDC"
    /\ feeAmount = 500
    /\ tickSpacing = 10
    /\ hooks = "0xH"
    /\ chainId = 1
    /\ provider = TRUE
    /\ poolManagerContract = TRUE
    /\ slot0 = Undefined
    /\ liquidity = Undefined
    /\ effectDue = FALSE
    /\ requests = <<>>
    /\ started = 0
    /\ out = InvalidPair
    /\ current = 0
    /\ owner = [n |-> 0, id |-> Undefined, ended |-> "none"]
    /\ last = NoCall

\* PoolCache.getPoolKeys(tokenA, tokenB, fee, tickSpacing, hooks)
CallGetPoolKeys ==
    /\ last.count < MaxCalls
    /\ \E fee \in ProbeFees :
          LET got == getPoolKeys(poolKeys, nextRef, "USDC", "WETH", fee, 60, "0xH")
          IN  /\ poolKeys' = got.seq
              /\ nextRef' = nextRef + 1
              /\ last' = [op |-> "getPoolKeys", count |-> last.count + 1, pre |-> poolKeys,
                          args |-> [currency0 |-> address("USDC"), currency1 |-> address("WETH"),
                                    fee |-> fee, tickSpacing |-> 60, hooks |-> "0xH"],
                          ret |-> got.ret, added |-> got.added, threw |-> FALSE]
    /\ UNCHANGED <<pools, inputVars, hookVars>>

\* PoolCache.getPool(tokenA, tokenB, fee, sqrtPriceX96, liquidity, tickSpacing, tick)
CallGetPool ==
    /\ last.count < MaxCalls
    /\ \E tokenA \in ProbeTokenA, price \in ProbePrices, spacing \in ProbeTickSpacing :
          LET got == getPool(pools, nextRef, tokenA, "WETH", 500, price, 7, spacing, 1)
          IN  /\ pools' = got.seq
              /\ nextRef' = IF got.added THEN nextRef + 1 ELSE nextRef
              /\ last' = [op |-> "getPool", count |-> last.count + 1, pre |-> pools,
                          args |-> [token0 |-> tokenA, token1 |-> "WETH", fee |-> 500,
                                    sqrtRatioX96 |-> price, liquidity |-> 7,
                                    tickSpacing |-> spacing, tickCurrent |-> 1],
                          ret |-> got.ret, added |-> got.added, threw |-> got.threw]
    /\ UNCHANGED <<poolKeys, inputVars, hookVars>>

NextCache == CallGetPoolKeys \/ CallGetPool

SpecCache == InitCache /\ [][NextCache]_vars

\* Claims about the cache, checked under SpecCache. In them last.pre is the
\* sequence the last call found, last.args its arguments, last.ret what it
\* returned.

sameKey(key, args) ==
    /\ key.currency0 = args.currency0
    /\ key.currency1 = args.currency1
    /\ key.fee = args.fee
    /\ key.tickSpacing = args.tickSpacing
    /\ key.hooks = args.hooks

samePool(pool, args) ==
    /\ pool.token0 = args.token0
    /\ pool.token1 = args.token1
    /\ pool.fee = args.fee
    /\ pool.sqrtRatioX96 = args.sqrtRatioX96
    /\ pool.liquidity = args.liquidity
    /\ pool.tickCurrent = args.tickCurrent

\* C7: a getPoolKeys call whose five fields equal those of a stored key (one
\* among the MAX_ENTRIES / 2 most recent, which no eviction removes) returns
\* that stored instance and adds no entry.
C7_KeyCacheIdempotent ==
    last.op = "getPoolKeys" =>
        \A i \in 1..Min(Len(last.pre), MAX_ENTRIES \div 2) :
            sameKey(last.pre[i], last.args) =>
                /\ \E j \in 1..Len(last.pre) :
                      /\ last.ret = last.pre[j]
                      /\ sameKey(last.pre[j], last.args)
                /\ Len(poolKeys) <= Len(last.pre)

\* C9: neither sequence is ever longer than MAX_ENTRIES + 1, and a call that
\* finds its sequence longer than MAX_ENTRIES leaves the MAX_ENTRIES / 2 front
\* entries of it, in their order, behind at most one new entry.
C9_CacheBounded ==
    /\ Len(pools) <= MAX_ENTRIES + 1
    /\ Len(poolKeys) <= MAX_ENTRIES + 1
    /\ (last.op # "none" /\ Len(last.pre) > MAX_ENTRIES) =>
          LET now == IF last.op = "getPool" THEN pools ELSE poolKeys
              front == SubSeq(last.pre, 1, MAX_ENTRIES \div 2)
          IN  \/ now = front
              \/ Len(now) = Len(front) + 1 /\ Tail(now) = front

\* C9 witness: getPool found MAX_ENTRIES + 1 pools and left MAX_ENTRIES / 2 + 1.
C9_Witness ==
    /\ last.op = "getPool"
    /\ Len(last.pre) = MAX_ENTRIES + 1
    /\ Len(pools) = MAX_ENTRIES \div 2 + 1

\* C10 as claimed: a getPool call whose arguments match a pool anywhere in
\* the sequence returns that instance and constructs no pool.
C10_HitAnywhere ==
    last.op = "getPool" =>
        ((\E i \in 1..Len(last.pre) : samePool(last.pre[i], last.args)) =>
            /\ \E j \in 1..Len(last.pre) :
                  /\ last.ret = last.pre[j]
                  /\ samePool(last.pre[j], last.args)
            /\ Len(pools) <= Len(last.pre))

\* C10 amended: the call searches what it keeps of the sequence (all of it
\* when it is not longer than MAX_ENTRIES, else its MAX_ENTRIES / 2 front
\* entries). A match there is returned (the first one) and no pool is
\* constructed; a match only in the evicted part is not found, and the call
\* constructs a new pool and puts it at the front.
C10_HitAmongKept ==
    last.op = "getPool" =>
        LET keep == IF Len(last.pre) > MAX_ENTRIES THEN MAX_ENTRIES \div 2 ELSE Len(last.pre)
            kept == {i \in 1..keep : samePool(last.pre[i], last.args)}
            evicted == {i \in (keep + 1)..Len(last.pre) : samePool(last.pre[i], last.args)}
        IN  /\ kept # {} =>
                /\ last.ret = last.pre[CHOOSE i \in kept : \A j \in kept : i <= j]
                /\ pools = SubSeq(last.pre, 1, keep)
            /\ (kept = {} /\ evicted # {}) =>
                /\ \A i \in 1..Len(last.pre) : last.pre[i].ref # last.ret.ref
                /\ samePool(last.ret, last.args)
                /\ pools = <<last.ret>> \o SubSeq(last.pre, 1, keep)

\* C10 witness: the sequence was over capacity, the match lay in its older
\* half, and the call constructed a pool.
C10_Witness ==
    /\ last.op = "getPool"
    /\ Len(last.pre) > MAX_ENTRIES
    /\ \E i \in (MAX_ENTRIES \div 2 + 1)..Len(last.pre) : samePool(last.pre[i], last.args)
    /\ last.added

\* C17: a getPool or getPoolKeys call changes its sequence only by dropping
\* entries from the back and by putting one new entry at the front: what
\* survives is a front part of the sequence found, same entries in the same
\* order, and an entry the call found and returned stays where it was (as
\* many entries in front of it as before). The other sequence is untouched.
C17_FrontInsertBackTruncate ==
    last.op \in {"getPool", "getPoolKeys"} =>
        LET now == IF last.op = "getPool" THEN pools ELSE poolKeys
            keep == IF last.added THEN Len(now) - 1 ELSE Len(now)
        IN  /\ keep <= Len(last.pre)
            /\ (IF last.added THEN Tail(now) ELSE now) = SubSeq(last.pre, 1, keep)
            /\ last.added =>
                  /\ now[1] = last.ret
                  /\ \A i \in 1..Len(last.pre) : last.pre[i].ref # now[1].ref
            /\ (~last.added /\ ~last.threw) =>
                  \E i \in 1..keep :
                      /\ last.ret = last.pre[i]
                      /\ now[i] = last.ret

\* C17 witness: getPool found the pool it was asked for behind other pools
\* and returned it; it is still behind them.
C17_Witness ==
    /\ last.op = "getPool"
    /\ ~last.added
    /\ ~last.threw
    /\ \E i \in 2..Len(pools) :
          /\ last.ret = pools[i]
          /\ last.pre[i] = last.ret
    /\ pools[1] # last.ret

\* C20: no two pools of the sequence agree on token0, token1, fee, price,
\* liquidity and tick (the pools give as many different six-tuples as there
\* are pools); and a getPool call whose Pool constructor threw adds
\* no entry: it leaves what it kept of the sequence it found.
C20_NoDuplicatePools ==
    /\ Cardinality({<<pools[i].token0, pools[i].token1, pools[i].fee, pools[i].sqrtRatioX96,
                       pools[i].liquidity, pools[i].tickCurrent>> : i \in 1..Len(pools)})
          = Len(pools)
    /\ (last.op = "getPool" /\ last.threw) =>
          /\ ~last.added
          /\ last.ret = Undefined
          /\ pools = evict(last.pre)

\* C20 witness: a first getPool call constructed a pool, and a second call
\* with the same six values and another tick spacing found it and added none.
C20_Witness ==
    /\ last.op = "getPool"
    /\ last.count = 2
    /\ ~last.added
    /\ ~last.threw
    /\ last.ret = last.pre[1]
    /\ last.ret.tickSpacing # last.args.tickSpacing
    /\ pools = last.pre

-----------------------------------------------------------------------------
(* PoolCache.getPoolKeys called on an empty cache with one new key after    *)
(* another                                                                  *)

MaxInserts == 130

InitEvict ==
    /\ poolKeys = <<>>
    /\ pools = <<>>
    /\ nextRef = 1
    /\ currencyA = ""
    /\ currencyB = "USDC"
    /\ feeAmount = 500
    /\ tickSpacing = 10
    /\ hooks = "0xH"
    /\ chainId = 1
    /\ provider = TRUE
    /\ poolManagerContract = TRUE
    /\ slot0 = Undefined
    /\ liquidity = Undefined
    /\ effectDue = FALSE
    /\ requests = <<>>
    /\ started = 0
    /\ out = InvalidPair
    /\ current = 0
    /\ owner = [n |-> 0, id |-> Undefined, ended |-> "none"]
    /\ last = NoCall

\* The next call inserts a key no earlier call inserted: its fee is its rank.
InsertDistinctKey ==
    /\ last.count < MaxInserts
    /\ LET fee == last.count + 1
           got == getPoolKeys(poolKeys, nextRef, "USDC", "WETH", fee, 60, "0xH")
       IN  /\ poolKeys' = got.seq
           /\ nextRef' = nextRef + 1
           /\ last' = [op |-> "getPoolKeys", count |-> last.count + 1, pre |-> poolKeys,
                       args |-> [currency0 |-> address("USDC"), currency1 |-> address("WETH"),
                                 fee |-> fee, tickSpacing |-> 60, hooks |-> "0xH"],
                       ret |-> got.ret, added |-> got.added, threw |-> FALSE]
    /\ UNCHANGED <<pools, inputVars, hookVars>>

NextEvict == InsertDistinctKey

SpecEvict == InitEvict /\ [][NextEvict]_vars

\* The keys stored are the n most recently inserted of `inserted`, most recent first.
mostRecentFirst(n, inserted) ==
    /\ Len(poolKeys) = n
    /\ \A i \in 1..n : poolKeys[i].fee = inserted + 1 - i

\* C8 as claimed: after MAX_ENTRIES + 1 distinct keys were inserted into an
\* empty sequence it holds MAX_ENTRIES / 2 keys, the most recent ones, most
\* recent first.
C8_HalfAfterOverflow ==
    last.count = MAX_ENTRIES + 1 => mostRecentFirst(MAX_ENTRIES \div 2, MAX_ENTRIES + 1)

\* C8 amended: after MAX_ENTRIES + 1 distinct insertions the sequence holds
\* all MAX_ENTRIES + 1 keys, most recent first; the next insertion evicts
\* first and leaves MAX_ENTRIES / 2 + 1 keys: the new one in front of the
\* MAX_ENTRIES / 2 most recent of the earlier ones, most recent first.
C8_EvictionAtNextCall ==
    /\ last.count = MAX_ENTRIES + 1 => mostRecentFirst(MAX_ENTRIES + 1, MAX_ENTRIES + 1)
    /\ last.count = MAX_ENTRIES + 2 => mostRecentFirst(MAX_ENTRIES \div 2 + 1, MAX_ENTRIES + 2)

\* C8 witness: the insertion after the overflow has run.
C8_Witness ==
    /\ last.count = MAX_ENTRIES + 2
    /\ Len(poolKeys) = MAX_ENTRIES \div 2 + 1

-----------------------------------------------------------------------------
(* The memos of a render (lines 108-138 and 196-234) as a function of the   *)
(* arguments: any currencies, fee, tick spacing, hook and chainId, rendered *)
(* in both orders of the currencies                                         *)

MaxRenders == 2

NormCurrencies == {"", "ETH", "USDC", "USDC2", "WETH"}
NormFees == {0, 500, UINT24_MAX + 1}
NormTickSpacings == {0, 10, 60}
NormHooks == {"", "0xH", "0xZZ"}
NormChainIds == {0, 1}

\* The trackers before any read and after a pair of reads found a pool.
NormTrackers ==
    {<<Undefined, Undefined>>,
     <<Tracker([sqrtPriceX96 |-> 5, tick |-> 1], FALSE, TRUE),
       Tracker([liquidity |-> 7], FALSE, TRUE)>>}

\* The three memos of lines 108-138: pool token, pool key, identifier.
normalize(chain, cA, cB, fee, spacing, hook) ==
    LET pt == poolTokenOf(chain, cA, cB, fee, spacing, hook)
        key == poolKeyOf(pt)
    IN  [pt |-> pt, key |-> key, id |-> toId(key)]

\* One render of usePool: an exception of the id memo leaves the hook; else
\* the result memo gives the pair.
renderHook(ps, ref, chain, cA, cB, fee, spacing, hook, s0, liq) ==
    LET n == normalize(chain, cA, cB, fee, spacing, hook)
    IN  IF n.id = Thrown
        THEN [state |-> "THROWN", pool |-> Undefined, pools |-> ps, added |-> FALSE]
        ELSE render(ps, ref, n.pt, n.key, s0, liq)

InitNormalize ==
    /\ pools \in MemoPools
    /\ poolKeys = <<>>
    /\ nextRef = Len(pools) + 1
    /\ currencyA \in NormCurrencies
    /\ currencyB \in NormCurrencies
    /\ feeAmount \in NormFees
    /\ tickSpacing \in NormTickSpacings
    /\ hooks \in NormHooks
    /\ chainId \in NormChainIds
    /\ provider = TRUE
    /\ poolManagerContract = TRUE
    /\ \E t \in NormTrackers :
          /\ slot0 = t[1]
          /\ liquidity = t[2]
    /\ effectDue = FALSE
    /\ requests = <<>>
    /\ started = 0
    /\ out = NotRendered
    /\ current = 0
    /\ owner = [n |-> 0, id |-> Undefined, ended |-> "none"]
    /\ last = NoCall

\* usePool renders with the arguments (the cache and the pair change as the
\* result memo says); last.ab holds its memos, last.ba the memos of the same
\* arguments with the currencies exchanged, last.before those of the render
\* before.
HookRenders ==
    /\ last.count < MaxRenders
    /\ LET r == renderHook(pools, nextRef, chainId, currencyA, currencyB, feeAmount,
                           tickSpacing, hooks, slot0, liquidity)
       IN  /\ out' = [state |-> r.state, pool |-> r.pool]
           /\ pools' = r.pools
           /\ nextRef' = IF r.added THEN nextRef + 1 ELSE nextRef
    /\ last' = [op |-> "render", count |-> last.count + 1,
                ab |-> normalize(chainId, currencyA, currencyB, feeAmount, tickSpacing, hooks),
                ba |-> normalize(chainId, currencyB, currencyA, feeAmount, tickSpacing, hooks),
                before |-> IF last.op = "render" THEN last.ab ELSE Undefined]
    /\ UNCHANGED <<poolKeys, inputVars, slot0, liquidity, effectDue, requests, started,
                   current, owner>>

\* The caller passes another Token instance of the same address as currencyB.
OtherInstance ==
    /\ currencyB \in {"USDC", "USDC2"}
    /\ currencyB' = IF currencyB = "USDC" THEN "USDC2" ELSE "USDC"
    /\ UNCHANGED <<cacheVars, currencyA, feeAmount, tickSpacing, hooks, chainId, provider,
                   poolManagerContract, hookVars, last>>

NextNormalize == HookRenders \/ OtherInstance

SpecNormalize == InitNormalize /\ [][NextNormalize]_vars

\* C11: for present currencies that wrap to different tokens, the render of
\* (A, B, ...) and the render of (B, A, ...) compute the same ordered token
\* pair, field-equal pool keys and the same identifier (for a fee, tick
\* spacing, hook or chainId that gives no key, or a key that cannot be
\* encoded, both orders end alike); and two renders whose pool keys agree on
\* the five fields compute the same identifier, whatever the cache holds and
\* whichever Token instances were passed.
C11_NormalizationCommutative ==
    last.op = "render" =>
        /\ (currencyA # "" /\ currencyB # "" /\ ~equals(wrapped(currencyA), wrapped(currencyB))) =>
              /\ last.ab.pt = last.ba.pt
              /\ last.ab.key = last.ba.key
              /\ last.ab.id = last.ba.id
        /\ (last.before # Undefined /\ last.before.key = last.ab.key) =>
              last.before.id = last.ab.id

\* C11 witness: ETH and USDC in the order that needs the exchange, a key and
\* an identifier computed, a second time after the cache grew.
C11_Witness ==
    /\ last.op = "render"
    /\ last.count = 2
    /\ currencyA = "ETH"
    /\ currencyB \in {"USDC", "USDC2"}
    /\ last.ab.key # Undefined
    /\ last.ab.pt.token0 = currencyB
    /\ last.ab.id \notin {Undefined, Thrown}
    /\ last.ab.id = last.ba.id
    /\ Len(pools) > 0

\* C12: the render computes no pool key when a currency is missing or both
\* wrap to the same token; in every other case (here: with a network, a hook
\* and a tick spacing other than 0 supplied, and any fee, 0 included) it
\* computes a key whose currency0 is the smaller address, whose currency1 is
\* the other, and whose fee, tick spacing and hook are the supplied values.
C12_KeyForEveryFee ==
    (last.op = "render" /\ chainId # 0 /\ hooks # "" /\ tickSpacing # 0) =>
        IF currencyA = "" \/ currencyB = ""
        THEN last.ab.key = Undefined
        ELSE LET a == address(wrapped(currencyA))
                 b == address(wrapped(currencyB))
             IN  IF a = b
                 THEN last.ab.key = Undefined
                 ELSE /\ last.ab.key # Undefined
                      /\ last.ab.key.currency0 = Min(a, b)
                      /\ last.ab.key.currency1 = a + b - Min(a, b)
                      /\ last.ab.key.fee = feeAmount
                      /\ last.ab.key.tickSpacing = tickSpacing
                      /\ last.ab.key.hooks = hooks

\* C13: no render of usePool ends in an exception: the pair it returns
\* carries one of the four availability values.
C13_NoExceptionLeavesTheHook ==
    out.state \in {"none", "INVALID", "LOADING", "NOT_EXISTS", "EXISTS"}

-----------------------------------------------------------------------------
(* src/src/theme/index.tsx: the theme Provider. A theme is a function from  *)
(* the names of the fields it has to their values; the two sections         *)
(* borderRadius and grids are values as a whole. In the specification of    *)
(* this section `last` holds the last Provider rendered: the context it     *)
(* read, its theme prop and the value it provides to its children.          *)

MaxNesting == 2

\* An object with no field.
NoFields == [f \in {} |-> ""]

\* The object spread {...a, ...b}: the fields of both, b's value where both have one.
spread(a, b) == [f \in DOMAIN a \cup DOMAIN b |-> IF f \in DOMAIN b THEN b[f] ELSE a[f]]

lightTheme ==
    [primary |-> "#FFFFFF", secondary |-> "#2ecc71", tertiary |-> "#f1c40f",
     background |-> "#12131A", background2 |-> "#323232", text |-> "#34495e",
     textInverted |-> "#ffffff"]

defaultBorderRadius == "defaultBorderRadius"
gapValues == "gapValues"

defaultTheme ==
    spread(spread([grids |-> gapValues], lightTheme), [borderRadius |-> defaultBorderRadius])

\* theme.borderRadius ? ... : ..., theme.grids ? ... : ...: the section is there.
present(theme, section) == section \in DOMAIN theme

toDefaultTheme(theme) ==
    spread(theme,
           [borderRadius |-> IF present(theme, "borderRadius")
                             THEN theme.borderRadius ELSE defaultBorderRadius,
            grids |-> IF present(theme, "grids") THEN theme.grids ELSE gapValues])

\* createContext(toDefaultTheme(defaultTheme)): what useContext gives outside any Provider.
defaultContext == toDefaultTheme(defaultTheme)

\* The value a Provider computes from its theme prop and the context it reads.
providerValue(theme, themeCtx) == toDefaultTheme(spread(theme, themeCtx))

\* Theme props: some colours, a borderRadius section, a grids section, each or none.
PropColors ==
    {NoFields, [primary |-> "#000000"], [text |-> "#111111"],
     [primary |-> "#000000", text |-> "#111111"], [primary |-> "#FFFFFF"],
     [background |-> "#222222", textInverted |-> "#333333"]}
PropBorderRadius == {NoFields, [borderRadius |-> "squareCorners"], [borderRadius |-> "roundCorners"]}
PropGrids == {NoFields, [grids |-> "wideGaps"], [grids |-> "narrowGaps"]}
ThemeProps == {spread(spread(c, b), g) : c \in PropColors, b \in PropBorderRadius, g \in PropGrids}

InitTheme ==
    /\ pools = <<>>
    /\ poolKeys = <<>>
    /\ nextRef = 1
    /\ currencyA = ""
    /\ currencyB = "USDC"
    /\ feeAmount = 500
    /\ tickSpacing = 10
    /\ hooks = "0xH"
    /\ chainId = 1
    /\ provider = TRUE
    /\ poolManagerContract = TRUE
    /\ slot0 = Undefined
    /\ liquidity = Undefined
    /\ effectDue = FALSE
    /\ requests = <<>>
    /\ started = 0
    /\ out = InvalidPair
    /\ current = 0
    /\ owner = [n |-> 0, id |-> Undefined, ended |-> "none"]
    /\ last = NoCall

\* A Provider renders inside the last one rendered (or inside none): it
\* reads the context its parent provides and provides its own value.
ProviderRenders ==
    /\ last.count < MaxNesting
    /\ \E theme \in ThemeProps :
          LET themeCtx == IF last.op = "Provider" THEN last.value ELSE defaultContext
          IN  last' = [op |-> "Provider", count |-> last.count + 1, theme |-> theme,
                       themeCtx |-> themeCtx, value |-> providerValue(theme, themeCtx)]
    /\ UNCHANGED <<cacheVars, inputVars, hookVars>>

NextTheme == ProviderRenders

SpecTheme == InitTheme /\ [][NextTheme]_vars

\* C14: in the value a Provider provides, every field its theme prop supplies
\* has the prop's value, every other field has the value of the context it
\* read, and borderRadius and grids are there (the default section when
\* neither supplies one).
C14_ChildOverridesParent ==
    last.op = "Provider" =>
        /\ \A f \in DOMAIN last.theme : last.value[f] = last.theme[f]
        /\ \A f \in DOMAIN last.themeCtx \ DOMAIN last.theme : last.value[f] = last.themeCtx[f]
        /\ {"borderRadius", "grids"} \subseteq DOMAIN last.value

-----------------------------------------------------------------------------
(* Progress: a due effect runs, and the callback of a settled Promise.all   *)
(* runs. Nothing makes a read settle.                                       *)

SpecLive ==
    /\ Init
    /\ [][Next]_vars
    /\ WF_vars(RunEffect)
    /\ WF_vars(PromiseThenSome)
    /\ WF_vars(PromiseCatchSome)

\* Both reads of the chain the last effect run started have completed (or
\* that run started none).
currentReadsCompleted ==
    \A r \in 1..Len(requests) :
        requests[r].n = current => (requests[r].s0 # "pending" /\ requests[r].lts # "pending")

\* A read of the chain the last effect run started is in flight and the
\* other has not rejected.
currentReadInFlight ==
    \E r \in 1..Len(requests) :
        /\ requests[r].n = current
        /\ requests[r].s0 = "pending" \/ requests[r].lts = "pending"
        /\ requests[r].s0 # "rejected"
        /\ requests[r].lts # "rejected"

\* Once the arguments and the connection stay as they are and both reads of the
\* request have completed, the pair leaves LOADING for good.
C18_SettledLeavesLoading ==
    <>[](~effectDue /\ currentReadsCompleted) =>
        <>[](out.state \in {"EXISTS", "NOT_EXISTS", "INVALID"})

\* For as long as a read of the request is in flight, the other has not
\* rejected and the arguments and the connection stay as they are, the pair
\* is LOADING.
C18_InFlightStaysLoading ==
    [](((~effectDue) /\ currentReadInFlight) => out.state = "LOADING")

\* C18: with the arguments and the connection fixed after a request started,
\* if both its reads complete the pair eventually leaves LOADING and is
\* EXISTS, NOT_EXISTS or INVALID from then on; and while one of its reads
\* has not completed and the other has not rejected the pair stays LOADING.
C18_LeavingLoading ==
    /\ C18_SettledLeavesLoading
    /\ C18_InFlightStaysLoading

====
